---- MODULE Spec2Model ----
(***************************************************************************)
(* Model of the interactive session core of agent-cli:                     *)
(*   src/src/session.ts        Session (main loop, turn, message bridge)   *)
(*   src/src/input/handler.ts  InputHandler (line dispatch, capture mode,  *)
(*                             interrupt queue, resolvers)                 *)
(*   src/src/agent/bridge.ts   AgentBridge.stream, createUserMessage       *)
(* The remote call (the SDK's query()) is external: it pulls the outbound  *)
(* generator it was given and produces inbound events at its own pace, so  *)
(* its steps are nondeterministic choices.                                 *)
(*                                                                         *)
(* Text is a sequence of one-character strings.                            *)
(* Scheduling is that of one JavaScript thread: a handler runs to its next *)
(* await as one action; the continuation of an await is a separate action. *)
(***************************************************************************)
EXTENDS Integers, Sequences, FiniteSets, TLC

\* ---------------------------------------------------------------- bounds
MaxTurns == 2       \* prompts submitted in one behaviour
MaxLines == 3       \* lines typed and keys (add-newline, Ctrl+C) pressed in one behaviour
MaxPending == 2     \* handleCanUseTool calls awaiting an answer at one time

\* ------------------------------------------------------ program constants
maxHistory == 100
ctrlCTimeoutMs == 2000

\* ------------------------------------------------------------------ text
Whitespace == {" ", "\t", "\n"}

RECURSIVE TrimStart(_)
TrimStart(s) ==
    IF s # <<>> /\ Head(s) \in Whitespace THEN TrimStart(Tail(s)) ELSE s

RECURSIVE TrimEnd(_)
TrimEnd(s) ==
    IF s # <<>> /\ s[Len(s)] \in Whitespace
    THEN TrimEnd(SubSeq(s, 1, Len(s) - 1))
    ELSE s

\* String.prototype.trim
Trim(s) == TrimEnd(TrimStart(s))

\* String.prototype.startsWith / endsWith / includes, for one character
StartsWith(s, c) == s # <<>> /\ Head(s) = c
EndsWith(s, c) == s # <<>> /\ s[Len(s)] = c
Includes(s, c) == \E i \in 1..Len(s) : s[i] = c

LowerChar(c) ==
    CASE c = "A" -> "a"
      [] c = "N" -> "n"
      [] c = "Y" -> "y"
      [] c = "Q" -> "q"
      [] c = "E" -> "e"
      [] c = "S" -> "s"
      [] c = "O" -> "o"
      [] c = "L" -> "l"
      [] c = "W" -> "w"
      [] OTHER -> c

\* String.prototype.toLowerCase
ToLowerCase(s) == [i \in 1..Len(s) |-> LowerChar(s[i])]

\* Array.prototype.join('\n')
RECURSIVE Join(_)
Join(buf) ==
    IF buf = <<>> THEN <<>>
    ELSE IF Len(buf) = 1 THEN buf[1]
    ELSE buf[1] \o <<"\n">> \o Join(Tail(buf))

\* the lines the user may type: two plain texts (one with white space
\* around it), an empty line, a continuation line and two commands
LineInputs ==
    { <<"a">>, <<" ", "b", " ">>, <<>>, <<"a", "\\">>,
      <<"/", "q", "u", "i", "t">>, <<"/", "h", "e", "l", "p">> }

\* what readline's line buffer may hold when Option+Enter is pressed
KeyLines == { <<>>, <<"a">> }

\* Date.now().  Time is measured from the last Ctrl+C that showed the
\* warning: that press is at Epoch, and a press is made at one of Nows.
\* (lastCtrlCTime starts at 0, which is more than the timeout before any
\* time the clock can show.)
Epoch == 2 * ctrlCTimeoutMs
Nows ==
    { Epoch, Epoch + ctrlCTimeoutMs - 1, Epoch + ctrlCTimeoutMs,
      Epoch + 2 * ctrlCTimeoutMs }

\* ---------------------------------------------------------------- values
NoEvent == [type |-> "none"]
NoMsg == [kind |-> "null"]          \* the null a resolver is ended with
Pending == [kind |-> "pending"]     \* a request that has not resolved yet
NoText == <<"<null>">>              \* string | null fields holding null

\* the fixed marker put before an injected interrupt (session.ts:198)
InterruptPrefix == <<"[User interrupt] ">>

\* createUserMessage: the payload carries the content unchanged
createUserMessage(content) ==
    [type |-> "user", role |-> "user", content |-> content]

\* A payload with its history fields: what enqueued it (kind), the turn that
\* enqueued it (turn), for an interrupt the turn it was captured in (from),
\* and its number among the payloads enqueued since the last
\* endMessageStream (id).
Tag(msg, kind, turn, from, id) ==
    [msg |-> msg, kind |-> kind, turn |-> turn, from |-> from, id |-> id]

Turns == 1..MaxTurns

VARIABLES
    \* Session
    isRunning,          \* Session.isRunning
    state,              \* Session.state: isStreaming, pendingInterrupt, turnCount
    messageQueue,       \* Session.messageQueue
    messageResolvers,   \* Session.messageResolvers: the generator each waits for
    pc,                 \* where mainLoop is
    event,              \* the InputEvent getInput() resolved with
    \* InputHandler
    inputHandler,       \* the fields of InputHandler
    closed,             \* the readline interface was closed
    \* Session.handleCanUseTool
    permWaiters,        \* calls awaiting their getPermissionInput() promise
    permAnswer,         \* the answer a call has just been resumed with
    reprompts,          \* 'Please enter y/n/a' written for the pending request
    decision,           \* the PermissionResult last returned to the remote call
    \* the outbound generators, one per turn, held by the remote call
    gen,                \* state of createMessageGenerator() of each turn
    \* history variables
    reqLog,             \* requestNext calls since the last endMessageStream
    enqLog,             \* payloads enqueued since the last endMessageStream
    captured,           \* interrupt texts captured during the current turn
    queueTurns,         \* for each entry of the interrupt queue, its turn
    endCalls,           \* number of endMessageStream calls
    lastOutcome,        \* how the handlePrompt that has just returned ended
    errorsShown,        \* renderer.showError calls of that handlePrompt
    linesTyped,         \* lines typed and add-newline keys pressed so far
    ctrlCPresses        \* Ctrl+C presses so far

vars == << isRunning, state, messageQueue, messageResolvers, pc, event,
           inputHandler, closed, permWaiters, permAnswer, reprompts, decision,
           gen,
           reqLog, enqLog, captured, queueTurns, endCalls, lastOutcome,
           errorsShown, linesTyped, ctrlCPresses >>

\* the variables of the permission requests
permVars == << permWaiters, permAnswer, reprompts, decision >>

\* the variables of the message bridge and of the generators reading it
Bridge ==
    [queue |-> messageQueue, resolvers |-> messageResolvers, gen |-> gen,
     reqLog |-> reqLog, enqLog |-> enqLog, endCalls |-> endCalls]

\* position of generator g's unresolved request in a request log
PendingAt(log, g) ==
    CHOOSE i \in 1..Len(log) : log[i].gen = g /\ log[i].res = Pending

\* ------------------------------------------------------- Session: bridge
\* Session.createMessageGenerator, after its await: generator g returns on
\* null and yields any other message to the remote call
generatorResume(b, g, msg) ==
    [b EXCEPT !.gen[g] = IF msg = NoMsg THEN "done" ELSE "yielded"]

\* a resolver of messageResolvers called with msg
Resolve(b, g, msg) ==
    [generatorResume(b, g, msg) EXCEPT
         !.reqLog[PendingAt(b.reqLog, g)].res = msg]

\* getNextMessage testing `length > 1`: a single queued message is left in
\* the queue and a resolver is registered next to it
getNextMessage_offByOne(b, g) ==
    IF Len(b.queue) > 1
    THEN [generatorResume(b, g, Head(b.queue)) EXCEPT
              !.queue = Tail(@),
              !.reqLog = Append(@, [gen |-> g, res |-> Head(b.queue)])]
    ELSE [b EXCEPT !.resolvers = Append(@, g),
                   !.gen[g] = "waiting",
                   !.reqLog = Append(@, [gen |-> g, res |-> Pending])]

\* Session.getNextMessage, called by generator g
getNextMessage(b, g) ==
    IF Len(b.queue) > 0
    THEN [generatorResume(b, g, Head(b.queue)) EXCEPT
              !.queue = Tail(@),
              !.reqLog = Append(@, [gen |-> g, res |-> Head(b.queue)])]
    ELSE [b EXCEPT !.resolvers = Append(@, g),
                   !.gen[g] = "waiting",
                   !.reqLog = Append(@, [gen |-> g, res |-> Pending])]

\* queueMessage without its else: the message handed to a resolver is
\* pushed onto the queue as well
queueMessage_noElse(b, msg) ==
    IF b.resolvers # <<>>
    THEN [Resolve(b, Head(b.resolvers), msg) EXCEPT
              !.resolvers = Tail(@), !.queue = Append(@, msg),
              !.enqLog = Append(@, msg)]
    ELSE [b EXCEPT !.queue = Append(@, msg), !.enqLog = Append(@, msg)]

\* queueMessage taking the newest resolver (pop) instead of the oldest
queueMessage_pop(b, msg) ==
    IF b.resolvers # <<>>
    THEN [Resolve(b, b.resolvers[Len(b.resolvers)], msg) EXCEPT
              !.resolvers = SubSeq(@, 1, Len(@) - 1),
              !.enqLog = Append(@, msg)]
    ELSE [b EXCEPT !.queue = Append(@, msg), !.enqLog = Append(@, msg)]

\* Session.queueMessage
queueMessage(b, msg) ==
    IF b.resolvers # <<>>
    THEN [Resolve(b, Head(b.resolvers), msg) EXCEPT
              !.resolvers = Tail(@), !.enqLog = Append(@, msg)]
    ELSE [b EXCEPT !.queue = Append(@, msg), !.enqLog = Append(@, msg)]

\* the loop of Session.endMessageStream: resolver(null) for each resolver
RECURSIVE resolveAll(_, _)
resolveAll(b, rs) ==
    IF rs = <<>> THEN b ELSE resolveAll(Resolve(b, Head(rs), NoMsg), Tail(rs))

\* endMessageStream dropping the resolvers without calling them
endMessageStream_noResolve(b) ==
    [b EXCEPT !.resolvers = <<>>, !.queue = <<>>, !.reqLog = <<>>,
              !.enqLog = <<>>, !.endCalls = @ + 1]

\* endMessageStream without `this.messageResolvers = []`: the resolvers
\* it has called stay in the list
endMessageStream_keepResolvers(b) ==
    [resolveAll(b, b.resolvers) EXCEPT
         !.queue = <<>>, !.reqLog = <<>>, !.enqLog = <<>>, !.endCalls = @ + 1]

\* Session.endMessageStream.  The request and enqueue logs start afresh.
endMessageStream(b) ==
    [resolveAll(b, b.resolvers) EXCEPT
         !.resolvers = <<>>, !.queue = <<>>, !.reqLog = <<>>, !.enqLog = <<>>,
         !.endCalls = @ + 1]

\* Session.createMessageGenerator: one resumption of generator g by the
\* remote call's next(), up to its next await or return
generatorNext(b, g, running) ==
    IF running THEN getNextMessage(b, g) ELSE [b EXCEPT !.gen[g] = "done"]

SetBridge(b) ==
    /\ messageQueue' = b.queue
    /\ messageResolvers' = b.resolvers
    /\ gen' = b.gen
    /\ reqLog' = b.reqLog
    /\ enqLog' = b.enqLog
    /\ endCalls' = b.endCalls

bridgeVars ==
    << messageQueue, messageResolvers, gen, reqLog, enqLog, endCalls >>

\* ----------------------------------------------------------- InputHandler
\* submitInterrupt with the push inside `if (this.interruptCallback)`
submitInterrupt_needsCallback(r, text) ==
    IF r.h.interruptCallback
    THEN [r EXCEPT !.h.interruptQueue = Append(@, text),
                   !.cb = Append(@, text)]
    ELSE r

\* InputHandler.submitInterrupt: push, then the callback if one is
\* registered (the texts it is called with are returned in cb)
submitInterrupt(r, text) ==
    [r EXCEPT !.h.interruptQueue = Append(@, text),
              !.cb = IF r.h.interruptCallback THEN Append(@, text) ELSE @]

\* processInput resolving the prompt with the text as typed instead of
\* the trimmed text
processInput_noTrim(r, text) ==
    LET trimmed == Trim(text)
        h1 == IF trimmed # <<>>
              THEN [r.h EXCEPT !.history =
                        IF Len(@) + 1 > maxHistory
                        THEN Tail(Append(@, trimmed))
                        ELSE Append(@, trimmed)]
              ELSE r.h
        r1 == [r EXCEPT !.h = h1]
    IN  IF StartsWith(trimmed, "/") /\ ~Includes(trimmed, "\n")
        THEN IF h1.pendingResolve
             THEN [r1 EXCEPT !.ev = [type |-> "command",
                                     command |-> ToLowerCase(Tail(trimmed))],
                             !.h.pendingResolve = FALSE]
             ELSE r1
        ELSE IF h1.isCapturing /\ trimmed # <<>>
        THEN submitInterrupt(r1, trimmed)
        ELSE IF h1.pendingResolve /\ trimmed # <<>>
        THEN [r1 EXCEPT !.ev = [type |-> "prompt", text |-> text],
                        !.h.pendingResolve = FALSE]
        ELSE r1

\* processInput without `if (this.history.length > this.maxHistory)
\* this.history.shift()`
processInput_noShift(r, text) ==
    LET trimmed == Trim(text)
        h1 == IF trimmed # <<>>
              THEN [r.h EXCEPT !.history = Append(@, trimmed)]
              ELSE r.h
        r1 == [r EXCEPT !.h = h1]
    IN  IF StartsWith(trimmed, "/") /\ ~Includes(trimmed, "\n")
        THEN IF h1.pendingResolve
             THEN [r1 EXCEPT !.ev = [type |-> "command",
                                     command |-> ToLowerCase(Tail(trimmed))],
                             !.h.pendingResolve = FALSE]
             ELSE r1
        ELSE IF h1.isCapturing /\ trimmed # <<>>
        THEN submitInterrupt(r1, trimmed)
        ELSE IF h1.pendingResolve /\ trimmed # <<>>
        THEN [r1 EXCEPT !.ev = [type |-> "prompt", text |-> trimmed],
                        !.h.pendingResolve = FALSE]
        ELSE r1

\* processInput resolving the pending prompt with whatever was submitted,
\* empty text included
processInput_emptyPrompt(r, text) ==
    LET trimmed == Trim(text)
        h1 == IF trimmed # <<>>
              THEN [r.h EXCEPT !.history =
                        IF Len(@) + 1 > maxHistory
                        THEN Tail(Append(@, trimmed))
                        ELSE Append(@, trimmed)]
              ELSE r.h
        r1 == [r EXCEPT !.h = h1]
    IN  IF StartsWith(trimmed, "/") /\ ~Includes(trimmed, "\n")
        THEN IF h1.pendingResolve
             THEN [r1 EXCEPT !.ev = [type |-> "command",
                                     command |-> ToLowerCase(Tail(trimmed))],
                             !.h.pendingResolve = FALSE]
             ELSE r1
        ELSE IF h1.isCapturing /\ trimmed # <<>>
        THEN submitInterrupt(r1, trimmed)
        ELSE IF h1.pendingResolve
        THEN [r1 EXCEPT !.ev = [type |-> "prompt", text |-> trimmed],
                        !.h.pendingResolve = FALSE]
        ELSE r1

\* InputHandler.processInput
processInput(r, text) ==
    LET trimmed == Trim(text)
        h1 == IF trimmed # <<>>
              THEN [r.h EXCEPT !.history =
                        IF Len(@) + 1 > maxHistory
                        THEN Tail(Append(@, trimmed))
                        ELSE Append(@, trimmed)]
              ELSE r.h
        r1 == [r EXCEPT !.h = h1]
    IN  IF StartsWith(trimmed, "/") /\ ~Includes(trimmed, "\n")
        THEN IF h1.pendingResolve
             THEN [r1 EXCEPT !.ev = [type |-> "command",
                                     command |-> ToLowerCase(Tail(trimmed))],
                             !.h.pendingResolve = FALSE]
             ELSE r1
        ELSE IF h1.isCapturing /\ trimmed # <<>>
        THEN submitInterrupt(r1, trimmed)
        ELSE IF h1.pendingResolve /\ trimmed # <<>>
        THEN [r1 EXCEPT !.ev = [type |-> "prompt", text |-> trimmed],
                        !.h.pendingResolve = FALSE]
        ELSE r1

\* parsePermissionResponse comparing the input as typed, without
\* toLowerCase
parsePermissionResponse_caseSensitive(input) ==
    LET normalized == Trim(input)
    IN  IF normalized = <<"y">> \/ normalized = <<"y", "e", "s">>
        THEN "yes"
        ELSE IF normalized = <<"n">> \/ normalized = <<"n", "o">>
        THEN "no"
        ELSE IF \/ normalized = <<"a">>
                \/ normalized = <<"a", "l", "w", "a", "y", "s">>
                \/ normalized = <<"a", "l", "w", "a", "y", "s", " ",
                                  "a", "l", "l", "o", "w">>
        THEN "always"
        ELSE "null"

\* InputHandler.parsePermissionResponse
parsePermissionResponse(input) ==
    LET normalized == Trim(ToLowerCase(input))
    IN  IF normalized = <<"y">> \/ normalized = <<"y", "e", "s">>
        THEN "yes"
        ELSE IF normalized = <<"n">> \/ normalized = <<"n", "o">>
        THEN "no"
        ELSE IF \/ normalized = <<"a">>
                \/ normalized = <<"a", "l", "w", "a", "y", "s">>
                \/ normalized = <<"a", "l", "w", "a", "y", "s", " ",
                                  "a", "l", "l", "o", "w">>
        THEN "always"
        ELSE "null"

\* handleLine with the continuation test placed before the permission
\* test: a line ending with the marker goes to the multiline buffer while
\* a permission answer is awaited
handleLine_contFirst(h, line) ==
    LET r == [h |-> h, ev |-> NoEvent, perm |-> "null", cb |-> <<>>,
              reprompt |-> FALSE]
    IN  IF h.skipNextLine
        THEN [r EXCEPT !.h.skipNextLine = FALSE]
        ELSE IF EndsWith(line, "\\")
        THEN [r EXCEPT !.h.multilineBuffer =
                           Append(@, SubSeq(line, 1, Len(line) - 1)),
                       !.h.isMultilineMode = TRUE]
        ELSE IF h.pendingPermissionResolve
        THEN LET response == parsePermissionResponse(Trim(line))
             IN  IF response # "null"
                 THEN [r EXCEPT !.h.pendingPermissionResolve = FALSE,
                                !.perm = response]
                 ELSE [r EXCEPT !.reprompt = TRUE]
        ELSE IF h.isMultilineMode
        THEN processInput([r EXCEPT !.h.multilineBuffer = <<>>,
                                    !.h.isMultilineMode = FALSE],
                          Join(Append(h.multilineBuffer, line)))
        ELSE processInput(r, line)

\* handleLine without `this.multilineBuffer = []` when it flushes
handleLine_keepBuffer(h, line) ==
    LET r == [h |-> h, ev |-> NoEvent, perm |-> "null", cb |-> <<>>,
              reprompt |-> FALSE]
    IN  IF h.skipNextLine
        THEN [r EXCEPT !.h.skipNextLine = FALSE]
        ELSE IF h.pendingPermissionResolve
        THEN LET response == parsePermissionResponse(Trim(line))
             IN  IF response # "null"
                 THEN [r EXCEPT !.h.pendingPermissionResolve = FALSE,
                                !.perm = response]
                 ELSE [r EXCEPT !.reprompt = TRUE]
        ELSE IF EndsWith(line, "\\")
        THEN [r EXCEPT !.h.multilineBuffer =
                           Append(@, SubSeq(line, 1, Len(line) - 1)),
                       !.h.isMultilineMode = TRUE]
        ELSE IF h.isMultilineMode
        THEN processInput([r EXCEPT !.h.multilineBuffer = Append(@, line),
                                    !.h.isMultilineMode = FALSE],
                          Join(Append(h.multilineBuffer, line)))
        ELSE processInput(r, line)

\* handleLine returning on the skip flag without clearing it
handleLine_stickySkip(h, line) ==
    LET r == [h |-> h, ev |-> NoEvent, perm |-> "null", cb |-> <<>>,
              reprompt |-> FALSE]
    IN  IF h.skipNextLine
        THEN r
        ELSE IF h.pendingPermissionResolve
        THEN LET response == parsePermissionResponse(Trim(line))
             IN  IF response # "null"
                 THEN [r EXCEPT !.h.pendingPermissionResolve = FALSE,
                                !.perm = response]
                 ELSE [r EXCEPT !.reprompt = TRUE]
        ELSE IF EndsWith(line, "\\")
        THEN [r EXCEPT !.h.multilineBuffer =
                           Append(@, SubSeq(line, 1, Len(line) - 1)),
                       !.h.isMultilineMode = TRUE]
        ELSE IF h.isMultilineMode
        THEN processInput([r EXCEPT !.h.multilineBuffer = <<>>,
                                    !.h.isMultilineMode = FALSE],
                          Join(Append(h.multilineBuffer, line)))
        ELSE processInput(r, line)

\* InputHandler.handleLine.  The result holds the handler's new fields (h),
\* the event the prompt resolver was called with (ev), the answer the
\* permission resolver was called with (perm), the texts the interrupt
\* callback was called with (cb) and whether 'Please enter y/n/a' was
\* written (reprompt).
handleLine(h, line) ==
    LET r == [h |-> h, ev |-> NoEvent, perm |-> "null", cb |-> <<>>,
              reprompt |-> FALSE]
    IN  IF h.skipNextLine
        THEN [r EXCEPT !.h.skipNextLine = FALSE]
        ELSE IF h.pendingPermissionResolve
        THEN LET response == parsePermissionResponse(Trim(line))
             IN  IF response # "null"
                 THEN [r EXCEPT !.h.pendingPermissionResolve = FALSE,
                                !.perm = response]
                 ELSE [r EXCEPT !.reprompt = TRUE]
        ELSE IF EndsWith(line, "\\")
        THEN [r EXCEPT !.h.multilineBuffer =
                           Append(@, SubSeq(line, 1, Len(line) - 1)),
                       !.h.isMultilineMode = TRUE]
        ELSE IF h.isMultilineMode
        THEN processInput([r EXCEPT !.h.multilineBuffer = <<>>,
                                    !.h.isMultilineMode = FALSE],
                          Join(Append(h.multilineBuffer, line)))
        ELSE processInput(r, line)

\* InputHandler.getNextInterrupt: shift() || null.  The result holds the
\* text returned (NoText for null) and the queue left.
getNextInterrupt(q) ==
    IF q = <<>> THEN [text |-> NoText, rest |-> q]
    ELSE [text |-> IF Head(q) # <<>> THEN Head(q) ELSE NoText, rest |-> Tail(q)]

\* the options.suggestions a permission request may carry: none (the
\* field is optional) or a list of rules
Undefined == <<"<undefined>">>
Suggestions == { Undefined, <<"rule">> }

NoDecision == [behavior |-> "none"]

\* Session.handleCanUseTool after its await: the switch on the response.
\* (toolUseID, the same in the three results, is left out.)
permissionResult(response, suggestions) ==
    CASE response = "yes" ->
           [behavior |-> "allow", updatedInput |-> "input"]
      [] response = "always" ->
           [behavior |-> "allow", updatedInput |-> "input",
            updatedPermissions |-> suggestions]
      [] OTHER ->
           [behavior |-> "deny",
            message |-> "User denied permission for this tool",
            interrupt |-> FALSE]

\* getInput returning a promise whose resolver is not stored
getInput_noStore(h) == h

\* InputHandler.getInput / getPermissionInput: the resolver is stored
getInput(h) == [h EXCEPT !.pendingResolve = TRUE]
getPermissionInput(h) == [h EXCEPT !.pendingPermissionResolve = TRUE]

\* enableCapture switching capture mode over instead of on
enableCapture_toggle(h) ==
    [h EXCEPT !.isCapturing = ~@, !.captureBuffer = <<>>]

\* InputHandler.enableCapture / disableCapture
enableCapture(h) == [h EXCEPT !.isCapturing = TRUE, !.captureBuffer = <<>>]
disableCapture(h) == [h EXCEPT !.isCapturing = FALSE, !.captureBuffer = <<>>]

\* the keypress handler of setupRawMode for Option+Enter: currentLine is
\* what readline's line buffer holds
optionEnter(h, currentLine) ==
    [h EXCEPT !.multilineBuffer = Append(@, currentLine),
              !.isMultilineMode = TRUE,
              !.skipNextLine = TRUE]

\* the Ctrl+C handler cancelling a composition without clearing the skip
\* flag
ctrlC_keepSkip(h, now) ==
    LET r == [h |-> h, cb |-> <<>>, exit |-> FALSE, warn |-> FALSE]
    IN  IF h.isMultilineMode
        THEN [r EXCEPT !.h.multilineBuffer = <<>>,
                       !.h.isMultilineMode = FALSE]
        ELSE IF h.isCapturing /\ h.captureBuffer # <<>>
        THEN [submitInterrupt(r, h.captureBuffer) EXCEPT
                  !.h.captureBuffer = <<>>]
        ELSE IF now - h.lastCtrlCTime < ctrlCTimeoutMs
        THEN [r EXCEPT !.exit = TRUE]
        ELSE [r EXCEPT !.h.lastCtrlCTime = now, !.warn = TRUE]

\* the Ctrl+C handler leaving multiline mode without emptying the buffer
ctrlC_keepBuffer(h, now) ==
    LET r == [h |-> h, cb |-> <<>>, exit |-> FALSE, warn |-> FALSE]
    IN  IF h.isMultilineMode
        THEN [r EXCEPT !.h.isMultilineMode = FALSE,
                       !.h.skipNextLine = FALSE]
        ELSE IF h.isCapturing /\ h.captureBuffer # <<>>
        THEN [submitInterrupt(r, h.captureBuffer) EXCEPT
                  !.h.captureBuffer = <<>>]
        ELSE IF now - h.lastCtrlCTime < ctrlCTimeoutMs
        THEN [r EXCEPT !.exit = TRUE]
        ELSE [r EXCEPT !.h.lastCtrlCTime = now, !.warn = TRUE]

\* the Ctrl+C handler accepting a second press up to and including the
\* timeout (<= instead of <)
ctrlC_inclusive(h, now) ==
    LET r == [h |-> h, cb |-> <<>>, exit |-> FALSE, warn |-> FALSE]
    IN  IF h.isMultilineMode
        THEN [r EXCEPT !.h.multilineBuffer = <<>>,
                       !.h.isMultilineMode = FALSE,
                       !.h.skipNextLine = FALSE]
        ELSE IF h.isCapturing /\ h.captureBuffer # <<>>
        THEN [submitInterrupt(r, h.captureBuffer) EXCEPT
                  !.h.captureBuffer = <<>>]
        ELSE IF now - h.lastCtrlCTime <= ctrlCTimeoutMs
        THEN [r EXCEPT !.exit = TRUE]
        ELSE [r EXCEPT !.h.lastCtrlCTime = now, !.warn = TRUE]

\* the Ctrl+C handler starting the exit window also when it cancels a
\* multiline composition
ctrlC_cancelArms(h, now) ==
    LET r == [h |-> h, cb |-> <<>>, exit |-> FALSE, warn |-> FALSE]
    IN  IF h.isMultilineMode
        THEN [r EXCEPT !.h.multilineBuffer = <<>>,
                       !.h.isMultilineMode = FALSE,
                       !.h.skipNextLine = FALSE,
                       !.h.lastCtrlCTime = now]
        ELSE IF h.isCapturing /\ h.captureBuffer # <<>>
        THEN [submitInterrupt(r, h.captureBuffer) EXCEPT
                  !.h.captureBuffer = <<>>]
        ELSE IF now - h.lastCtrlCTime < ctrlCTimeoutMs
        THEN [r EXCEPT !.exit = TRUE]
        ELSE [r EXCEPT !.h.lastCtrlCTime = now, !.warn = TRUE]

\* The keypress handler of setupRawMode for Ctrl+C, pressed at time now.
\* The result holds the handler's new fields (h), the texts the interrupt
\* callback was called with (cb), whether process.emit('SIGINT') was
\* called (exit) and whether 'Press Ctrl+C again to exit' was shown (warn).
ctrlC(h, now) ==
    LET r == [h |-> h, cb |-> <<>>, exit |-> FALSE, warn |-> FALSE]
    IN  IF h.isMultilineMode
        THEN [r EXCEPT !.h.multilineBuffer = <<>>,
                       !.h.isMultilineMode = FALSE,
                       !.h.skipNextLine = FALSE]
        ELSE IF h.isCapturing /\ h.captureBuffer # <<>>
        THEN [submitInterrupt(r, h.captureBuffer) EXCEPT
                  !.h.captureBuffer = <<>>]
        ELSE IF now - h.lastCtrlCTime < ctrlCTimeoutMs
        THEN [r EXCEPT !.exit = TRUE]
        ELSE [r EXCEPT !.h.lastCtrlCTime = now, !.warn = TRUE]

\* Session.handleInterrupt, for each text the callback was called with
RECURSIVE handleInterrupt(_, _)
handleInterrupt(st, texts) ==
    IF texts = <<>> THEN st
    ELSE handleInterrupt(
             IF st.isStreaming
             THEN [st EXCEPT !.pendingInterrupt = Head(texts)]
             ELSE st,
             Tail(texts))

\* ------------------------------------------------------------------ Init
Init ==
    /\ isRunning = FALSE
    /\ state = [isStreaming |-> FALSE, pendingInterrupt |-> NoText,
                turnCount |-> 0]
    /\ messageQueue = <<>>
    /\ messageResolvers = <<>>
    /\ pc = "created"
    /\ event = NoEvent
    /\ inputHandler =
           [history |-> <<>>, interruptQueue |-> <<>>, isCapturing |-> FALSE,
            captureBuffer |-> <<>>, multilineBuffer |-> <<>>,
            isMultilineMode |-> FALSE, skipNextLine |-> FALSE,
            lastCtrlCTime |-> 0, interruptCallback |-> TRUE,
            pendingResolve |-> FALSE, pendingPermissionResolve |-> FALSE]
    /\ closed = FALSE
    /\ permWaiters = 0
    /\ permAnswer = "null"
    /\ reprompts = 0
    /\ decision = NoDecision
    /\ gen = [g \in Turns |-> "none"]
    /\ reqLog = <<>>
    /\ enqLog = <<>>
    /\ captured = <<>>
    /\ queueTurns = <<>>
    /\ endCalls = 0
    /\ lastOutcome = "none"
    /\ errorsShown = 0
    /\ linesTyped = 0
    /\ ctrlCPresses = 0

\* -------------------------------------------------------- Session: a turn
\* handlePrompt without its enableCapture() call
handlePromptStart_noCapture(st, h, b, text) ==
    LET t == st.turnCount + 1
    IN  [state |-> [st EXCEPT !.isStreaming = TRUE, !.turnCount = t],
         h |-> h,
         b |-> queueMessage([b EXCEPT !.gen[t] = "start"],
                            Tag(createUserMessage(text), "prompt", t, t,
                                Len(b.enqLog) + 1))]

\* Session.handlePrompt up to the first await of its for-await loop
handlePromptStart(st, h, b, text) ==
    LET t == st.turnCount + 1
    IN  [state |-> [st EXCEPT !.isStreaming = TRUE, !.turnCount = t],
         h |-> enableCapture(h),
         b |-> queueMessage([b EXCEPT !.gen[t] = "start"],
                            Tag(createUserMessage(text), "prompt", t, t,
                                Len(b.enqLog) + 1))]

\* the loop body reading the head of the interrupt queue without removing
\* it
pollInterrupt_peek(st, h, b, from) ==
    LET n == getNextInterrupt(h.interruptQueue)
    IN  [h |-> h,
         b |-> IF n.text # NoText
               THEN queueMessage(b, Tag(createUserMessage(InterruptPrefix \o n.text),
                                        "interrupt", st.turnCount, from,
                                        Len(b.enqLog) + 1))
               ELSE b]

\* the loop body enqueueing the polled text as it is, without the marker
pollInterrupt_noPrefix(st, h, b, from) ==
    LET n == getNextInterrupt(h.interruptQueue)
    IN  [h |-> [h EXCEPT !.interruptQueue = n.rest],
         b |-> IF n.text # NoText
               THEN queueMessage(b, Tag(createUserMessage(n.text),
                                        "interrupt", st.turnCount, from,
                                        Len(b.enqLog) + 1))
               ELSE b]

\* the body of the for-await loop of Session.handlePrompt, after
\* handler.handle(message): poll one interrupt and enqueue it
pollInterrupt(st, h, b, from) ==
    LET n == getNextInterrupt(h.interruptQueue)
    IN  [h |-> [h EXCEPT !.interruptQueue = n.rest],
         b |-> IF n.text # NoText
               THEN queueMessage(b, Tag(createUserMessage(InterruptPrefix \o n.text),
                                        "interrupt", st.turnCount, from,
                                        Len(b.enqLog) + 1))
               ELSE b]

\* handlePrompt with the cleanup after the loop instead of in a finally
\* block: it is skipped when the inbound loop raises
handlePromptEnd_noFinally(st, h, b, raised) ==
    IF raised
    THEN [state |-> st, h |-> h, b |-> b, errors |-> 1]
    ELSE [state |-> [st EXCEPT !.isStreaming = FALSE],
          h |-> disableCapture(h),
          b |-> endMessageStream(b),
          errors |-> 0]

\* handlePrompt with a catch block that swallows the error
handlePromptEnd_silent(st, h, b, raised) ==
    [state |-> [st EXCEPT !.isStreaming = FALSE],
     h |-> disableCapture(h),
     b |-> endMessageStream(b),
     errors |-> 0]

\* the catch and finally blocks of Session.handlePrompt
handlePromptEnd(st, h, b, raised) ==
    [state |-> [st EXCEPT !.isStreaming = FALSE],
     h |-> disableCapture(h),
     b |-> endMessageStream(b),
     errors |-> IF raised THEN 1 ELSE 0]

\* handleCommand with `this.isRunning = false` reached by every command
handleCommand_fallThrough(command, running) == FALSE

\* Session.handleCommand: the new value of isRunning
handleCommand(command, running) ==
    IF command \in { <<"e", "x", "i", "t">>, <<"q", "u", "i", "t">> }
    THEN FALSE
    ELSE running

\* --------------------------------------------------------------- actions
\* Session.start: isRunning is set and mainLoop runs to its first getInput
Start ==
    /\ pc = "created"
    /\ isRunning' = TRUE
    /\ inputHandler' = getInput(inputHandler)
    /\ pc' = "awaitInput"
    /\ UNCHANGED << state, event, closed, permVars, bridgeVars, captured,
                    queueTurns, lastOutcome, errorsShown,
                    linesTyped, ctrlCPresses >>

\* the 'line' event of readline: InputHandler.handleLine(line)
Line(line) ==
    /\ pc \in {"awaitInput", "streaming", "stopped"}
    /\ ~closed
    /\ permAnswer = "null"
    /\ linesTyped + ctrlCPresses < MaxLines
    /\ LET r == handleLine(inputHandler, line)
       IN  /\ r.ev.type = "prompt" => state.turnCount < MaxTurns
           /\ inputHandler' = r.h
           /\ permAnswer' = r.perm
           /\ permWaiters' = IF r.perm # "null" THEN permWaiters - 1
                              ELSE permWaiters
           /\ reprompts' = IF r.perm # "null" THEN 0
                            ELSE IF r.reprompt THEN reprompts + 1
                            ELSE reprompts
           /\ UNCHANGED decision
           /\ state' = handleInterrupt(state, r.cb)
           /\ captured' = captured \o r.cb
           /\ queueTurns' = queueTurns \o [i \in 1..Len(r.cb) |-> state.turnCount]
           /\ IF r.ev.type # "none"
              THEN pc' = "dispatch" /\ event' = r.ev
              ELSE UNCHANGED << pc, event >>
    /\ linesTyped' = linesTyped + 1
    /\ UNCHANGED ctrlCPresses
    /\ UNCHANGED << isRunning, closed, bridgeVars, lastOutcome, errorsShown >>

\* the 'close' handler resolving the pending getInput() without clearing
\* pendingResolve
Close_keepResolver ==
    /\ pc \in {"awaitInput", "streaming", "stopped"}
    /\ ~closed
    /\ permAnswer = "null"
    /\ closed' = TRUE
    /\ IF inputHandler.pendingResolve
       THEN /\ pc' = "dispatch"
            /\ event' = [type |-> "exit"]
            /\ UNCHANGED inputHandler
       ELSE UNCHANGED << inputHandler, pc, event >>
    /\ UNCHANGED << isRunning, state, permVars, bridgeVars, captured,
                    queueTurns, lastOutcome, errorsShown,
                    linesTyped, ctrlCPresses >>

\* the 'close' event of readline (end of input)
Close ==
    /\ pc \in {"awaitInput", "streaming", "stopped"}
    /\ ~closed
    /\ permAnswer = "null"
    /\ closed' = TRUE
    /\ IF inputHandler.pendingResolve
       THEN /\ inputHandler' = [inputHandler EXCEPT !.pendingResolve = FALSE]
            /\ pc' = "dispatch"
            /\ event' = [type |-> "exit"]
       ELSE UNCHANGED << inputHandler, pc, event >>
    /\ UNCHANGED << isRunning, state, permVars, bridgeVars, captured,
                    queueTurns, lastOutcome, errorsShown,
                    linesTyped, ctrlCPresses >>

\* the 'keypress' event of Option+Enter (stdin is a terminal)
OptionEnter(currentLine) ==
    /\ pc \in {"awaitInput", "streaming", "stopped"}
    /\ ~closed
    /\ permAnswer = "null"
    /\ linesTyped + ctrlCPresses < MaxLines
    /\ inputHandler' = optionEnter(inputHandler, currentLine)
    /\ linesTyped' = linesTyped + 1
    /\ UNCHANGED ctrlCPresses
    /\ UNCHANGED << isRunning, state, pc, event, closed, permVars, bridgeVars,
                    captured, queueTurns, lastOutcome, errorsShown >>

\* Session.mainLoop after getInput resolved: the switch on the event.  A
\* prompt runs handlePrompt up to the await of its for-await loop.
Dispatch ==
    /\ pc = "dispatch"
    /\ event' = NoEvent
    /\ IF event.type = "prompt"
       THEN LET r == handlePromptStart(state, inputHandler, Bridge, event.text)
            IN  /\ state' = r.state
                /\ inputHandler' = r.h
                /\ SetBridge(r.b)
                /\ captured' = <<>>
                /\ pc' = "streaming"
                /\ UNCHANGED isRunning
       ELSE /\ isRunning' =
                  CASE event.type = "command" -> handleCommand(event.command, isRunning)
                    [] event.type = "exit" -> FALSE
                    [] OTHER -> isRunning
            /\ state' = IF event.type = "interrupt"
                        THEN handleInterrupt(state, << event.text >>)
                        ELSE state
            /\ pc' = "loopTop"
            /\ UNCHANGED << inputHandler, bridgeVars, captured >>
    /\ UNCHANGED << closed, permVars, queueTurns, lastOutcome,
                    errorsShown, linesTyped, ctrlCPresses >>

\* Session.mainLoop at `while (this.isRunning)`: the next getInput, or return.
\* (Nothing in the try block throws, so its catch block is never entered.)
LoopTop ==
    /\ pc = "loopTop"
    /\ IF isRunning
       THEN /\ inputHandler' = getInput(inputHandler)
            /\ pc' = "awaitInput"
       ELSE /\ pc' = "stopped"
            /\ UNCHANGED inputHandler
    /\ lastOutcome' = "none"
    /\ errorsShown' = 0
    /\ UNCHANGED << isRunning, state, event, closed, permVars, bridgeVars,
                    captured, queueTurns, linesTyped, ctrlCPresses >>

\* the remote call yields an inbound message: one pass of the for-await body
InboundMessage ==
    /\ pc = "streaming"
    /\ permAnswer = "null"
    /\ LET r == pollInterrupt(state, inputHandler, Bridge,
                              IF queueTurns = <<>> THEN 0 ELSE Head(queueTurns))
       IN  /\ inputHandler' = r.h
           /\ SetBridge(r.b)
           /\ queueTurns' = IF queueTurns = <<>> THEN <<>> ELSE Tail(queueTurns)
    /\ UNCHANGED << isRunning, state, pc, event, closed, permVars, captured,
                    lastOutcome, errorsShown, linesTyped, ctrlCPresses >>

\* the inbound stream of the remote call ends (raised = FALSE) or raises
TurnEnd(raised) ==
    /\ pc = "streaming"
    /\ permAnswer = "null"
    /\ LET r == handlePromptEnd(state, inputHandler, Bridge, raised)
       IN  /\ state' = r.state
           /\ inputHandler' = r.h
           /\ SetBridge(r.b)
           /\ errorsShown' = r.errors
    /\ lastOutcome' = IF raised THEN "raised" ELSE "completed"
    /\ pc' = "loopTop"
    /\ UNCHANGED << isRunning, event, closed, permVars, captured, queueTurns,
                    linesTyped, ctrlCPresses >>

InboundDone == TurnEnd(FALSE)
InboundRaise == TurnEnd(TRUE)

\* The remote call asks for the next outbound message of the generator it
\* was given in turn g.  handlePrompt never closes the generator it handed
\* out and the generator only tests isRunning, so the call may come at any
\* time while the process lives, also after the turn has ended.
RemotePull(g) ==
    /\ pc \notin {"created", "exited"}
    /\ permAnswer = "null"
    /\ gen[g] \in {"start", "yielded"}
    /\ SetBridge(generatorNext(Bridge, g, isRunning))
    /\ UNCHANGED << isRunning, state, pc, event, inputHandler, closed,
                    permVars, captured, queueTurns, lastOutcome, errorsShown,
                    linesTyped, ctrlCPresses >>

\* the remote call asks for a permission: Session.handleCanUseTool up to its
\* await of InputHandler.getPermissionInput
CanUseTool ==
    /\ pc = "streaming"
    /\ permAnswer = "null"
    /\ permWaiters < MaxPending
    /\ inputHandler' = getPermissionInput(inputHandler)
    /\ permWaiters' = permWaiters + 1
    /\ reprompts' = 0
    /\ decision' = NoDecision
    /\ UNCHANGED << isRunning, state, pc, event, closed, permAnswer,
                    bridgeVars, captured, queueTurns, lastOutcome,
                    errorsShown, linesTyped, ctrlCPresses >>

\* Session.handleCanUseTool after its await: the answer is shown and the
\* decision returned to the remote call.  The suggestions are those the
\* call came with; nothing reads them before this step.
PermissionResult ==
    /\ permAnswer # "null"
    /\ permAnswer' = "null"
    /\ \E suggestions \in Suggestions :
           decision' = permissionResult(permAnswer, suggestions)
    /\ UNCHANGED << isRunning, state, pc, event, inputHandler, closed,
                    permWaiters, reprompts, bridgeVars, captured, queueTurns,
                    lastOutcome, errorsShown, linesTyped, ctrlCPresses >>

\* The 'keypress' event of Ctrl+C (stdin is a terminal).  When it emits
\* SIGINT the listener of index.ts runs Session.cleanup at once.  The time
\* origin moves to a press that wrote lastCtrlCTime.
CtrlC(now) ==
    /\ pc \in {"awaitInput", "streaming", "stopped"}
    /\ ~closed
    /\ permAnswer = "null"
    /\ linesTyped + ctrlCPresses < MaxLines
    /\ ctrlCPresses' = ctrlCPresses + 1
    /\ LET r == ctrlC(inputHandler, now)
       IN  IF r.exit
           THEN /\ isRunning' = FALSE
                /\ SetBridge(endMessageStream(Bridge))
                /\ closed' = TRUE
                /\ inputHandler' = [r.h EXCEPT !.pendingResolve = FALSE]
                /\ pc' = "exited"
                /\ UNCHANGED << state, captured, queueTurns >>
           ELSE /\ inputHandler' =
                      [r.h EXCEPT !.lastCtrlCTime = IF r.warn THEN Epoch ELSE @]
                /\ state' = handleInterrupt(state, r.cb)
                /\ captured' = captured \o r.cb
                /\ queueTurns' =
                      queueTurns \o [i \in 1..Len(r.cb) |-> state.turnCount]
                /\ UNCHANGED << isRunning, pc, closed, bridgeVars >>
    /\ UNCHANGED << event, permVars, lastOutcome, errorsShown, linesTyped >>

\* SIGINT or SIGTERM: Session.cleanup, then process.exit
Cleanup ==
    /\ pc \in {"awaitInput", "streaming", "stopped"}
    /\ permAnswer = "null"
    /\ isRunning' = FALSE
    /\ SetBridge(endMessageStream(Bridge))
    /\ closed' = TRUE
    /\ inputHandler' = [inputHandler EXCEPT !.pendingResolve = FALSE]
    /\ pc' = "exited"
    /\ UNCHANGED << state, event, permVars, captured, queueTurns,
                    lastOutcome, errorsShown, linesTyped, ctrlCPresses >>

Next ==
    \/ Start
    \/ \E line \in LineInputs : Line(line)
    \/ Close
    \/ \E currentLine \in KeyLines : OptionEnter(currentLine)
    \/ \E now \in Nows : CtrlC(now)
    \/ Dispatch
    \/ LoopTop
    \/ InboundMessage
    \/ InboundDone
    \/ InboundRaise
    \/ \E g \in Turns : RemotePull(g)
    \/ CanUseTool
    \/ PermissionResult
    \/ Cleanup

Spec == Init /\ [][Next]_vars

\* A session one submission short of a full history: after Session.start
\* the user has typed /help and /clear in turn, maxHistory - 1 lines in
\* all.  Each was recorded in the history and handled as a command, which
\* left everything else as it was, and getInput() is pending again.
PastCommands ==
    [i \in 1..(maxHistory - 1) |->
        IF i % 2 = 1 THEN <<"/", "h", "e", "l", "p">>
                     ELSE <<"/", "c", "l", "e", "a", "r">>]

HistoryInit ==
    /\ isRunning = TRUE
    /\ state = [isStreaming |-> FALSE, pendingInterrupt |-> NoText,
                turnCount |-> 0]
    /\ messageQueue = <<>>
    /\ messageResolvers = <<>>
    /\ pc = "awaitInput"
    /\ event = NoEvent
    /\ inputHandler =
           [history |-> PastCommands, interruptQueue |-> <<>>,
            isCapturing |-> FALSE,
            captureBuffer |-> <<>>, multilineBuffer |-> <<>>,
            isMultilineMode |-> FALSE, skipNextLine |-> FALSE,
            lastCtrlCTime |-> 0, interruptCallback |-> TRUE,
            pendingResolve |-> TRUE, pendingPermissionResolve |-> FALSE]
    /\ closed = FALSE
    /\ permWaiters = 0
    /\ permAnswer = "null"
    /\ reprompts = 0
    /\ decision = NoDecision
    /\ gen = [g \in Turns |-> "none"]
    /\ reqLog = <<>>
    /\ enqLog = <<>>
    /\ captured = <<>>
    /\ queueTurns = <<>>
    /\ endCalls = 0
    /\ lastOutcome = "none"
    /\ errorsShown = 0
    /\ linesTyped = 0
    /\ ctrlCPresses = 0

\* the session from there on, as far as submissions go: the user types
\* lines and add-newline keys, mainLoop handles the events, turns start
\* and end (linesTyped counts the lines typed since)
HistoryNext ==
    \/ \E line \in LineInputs : Line(line)
    \/ \E currentLine \in KeyLines : OptionEnter(currentLine)
    \/ Dispatch
    \/ LoopTop
    \/ InboundMessage
    \/ InboundDone

HistorySpec == HistoryInit /\ [][HistoryNext]_vars

\* Lines typed in answer to a permission request: those the code takes
\* for yes, for no and for always, and others.
YesInputs ==
    { <<"y">>, <<"Y">>, <<"y", "e", "s">>, <<"Y", "E", "S">>,
      <<" ", "Y", "e", "s", "\t">> }
NoInputs ==
    { <<"n">>, <<"N">>, <<"n", "o">>, <<" ", "N", "O">>, <<"n", "O", " ">> }
AlwaysInputs ==
    { <<"a">>, <<" ", "A", " ">>, <<"a", "l", "w", "a", "y", "s">>,
      <<"A", "L", "W", "A", "Y", "S">>,
      <<"a", "l", "w", "a", "y", "s", " ", "a", "l", "l", "o", "w">>,
      <<" ", "A", "l", "w", "a", "y", "s", " ", "A", "L", "L", "O", "W", " ">> }
InvalidInputs ==
    { <<>>, <<" ">>, <<"b">>, <<"y", "e">>, <<"y", " ", "e", "s">>,
      <<"y", "e", "s", "!">>, <<"n", "o", "n">>, <<"o", "k">>,
      <<"a", "l", "l", "o", "w">>,
      <<"a", "l", "w", "a", "y", "s", " ", " ", "a", "l", "l", "o", "w">>,
      <<"a", "l", "w", "a", "y", "s", "a", "l", "l", "o", "w">>,
      <<"/", "h", "e", "l", "p">>, <<"a", "\\">> }

PermissionInputs ==
    YesInputs \cup NoInputs \cup AlwaysInputs \cup InvalidInputs

\* A session in its first turn: after Session.start the user has typed
\* the prompt "a", handlePrompt has started the turn, and the remote call
\* has asked for a permission (handleCanUseTool awaits the answer).
FirstTurn ==
    handlePromptStart(
        [isStreaming |-> FALSE, pendingInterrupt |-> NoText, turnCount |-> 0],
        [history |-> << <<"a">> >>, interruptQueue |-> <<>>,
         isCapturing |-> FALSE,
         captureBuffer |-> <<>>, multilineBuffer |-> <<>>,
         isMultilineMode |-> FALSE, skipNextLine |-> FALSE,
         lastCtrlCTime |-> 0, interruptCallback |-> TRUE,
         pendingResolve |-> FALSE, pendingPermissionResolve |-> FALSE],
        [queue |-> <<>>, resolvers |-> <<>>, gen |-> [g \in Turns |-> "none"],
         reqLog |-> <<>>, enqLog |-> <<>>, endCalls |-> 0],
        <<"a">>)

PermissionInit ==
    /\ isRunning = TRUE
    /\ state = FirstTurn.state
    /\ messageQueue = FirstTurn.b.queue
    /\ messageResolvers = FirstTurn.b.resolvers
    /\ pc = "streaming"
    /\ event = NoEvent
    /\ inputHandler = getPermissionInput(FirstTurn.h)
    /\ closed = FALSE
    /\ permWaiters = 1
    /\ permAnswer = "null"
    /\ reprompts = 0
    /\ decision = NoDecision
    /\ gen = FirstTurn.b.gen
    /\ reqLog = FirstTurn.b.reqLog
    /\ enqLog = FirstTurn.b.enqLog
    /\ captured = <<>>
    /\ queueTurns = <<>>
    /\ endCalls = FirstTurn.b.endCalls
    /\ lastOutcome = "none"
    /\ errorsShown = 0
    /\ linesTyped = 0
    /\ ctrlCPresses = 0

\* the turn from there on, the user typing only when asked for a
\* permission (linesTyped counts the lines typed since)
PermissionNext ==
    \/ \E line \in PermissionInputs :
          inputHandler.pendingPermissionResolve /\ Line(line)
    \/ CanUseTool
    \/ PermissionResult
    \/ InboundMessage
    \/ InboundDone
    \/ InboundRaise
    \/ \E g \in Turns : RemotePull(g)
    \/ LoopTop

PermissionSpec == PermissionInit /\ [][PermissionNext]_vars

\* the continuations of mainLoop's awaits are queued microtasks: they run
FairSpec ==
    Spec /\ WF_vars(Dispatch) /\ WF_vars(LoopTop) /\ WF_vars(PermissionResult)

\* the cleanup of handlePrompt has run for turn g
EndedTurn(g) ==
    g < state.turnCount \/ (g = state.turnCount /\ ~state.isStreaming)

TypeOK ==
    /\ isRunning \in BOOLEAN
    /\ pc \in {"created", "awaitInput", "dispatch", "streaming", "loopTop",
               "stopped", "exited"}
    /\ state.turnCount \in 0..MaxTurns
    /\ \A g \in Turns : gen[g] \in {"none", "start", "waiting", "yielded", "done"}
    /\ linesTyped \in 0..MaxLines
    /\ ctrlCPresses \in 0..MaxLines
    /\ permWaiters \in 0..MaxPending
    /\ permAnswer \in {"null", "yes", "no", "always"}
    /\ reprompts \in 0..MaxLines
    /\ decision.behavior \in {"none", "allow", "deny"}
    /\ inputHandler.lastCtrlCTime \in {0, Epoch}
    /\ inputHandler.captureBuffer = <<>>
    /\ inputHandler.interruptCallback

\* ================================================================ claims
\* how many entries of a sequence satisfy Test
Count(seq, Test(_)) == Cardinality({i \in 1..Len(seq) : Test(seq[i])})

\* ---------------------------------------------------------------------
\* C1: the outbound message queue and the list of waiting resolvers are
\* never both non-empty, whatever getNextMessage, queueMessage and
\* endMessageStream calls have been made.
C1_NeverBothNonEmpty == ~(messageQueue # <<>> /\ messageResolvers # <<>>)

\* a resolver waits after requests, enqueues and an endMessageStream
C1_Witness ==
    /\ endCalls > 0
    /\ Len(enqLog) > 0
    /\ Len(reqLog) > 1
    /\ messageResolvers # <<>>

\* ---------------------------------------------------------------------
\* C2: FIFO law.  Between two endMessageStream calls the k-th requestNext
\* issued resolves to the k-th payload enqueued: it has resolved to it as
\* soon as both exist, and is still pending before.
C2_FIFO ==
    \A k \in 1..Len(reqLog) :
        IF k <= Len(enqLog)
        THEN reqLog[k].res = enqLog[k]
        ELSE reqLog[k].res = Pending

\* two different payloads x1, x2 and two requests, the second request made
\* before x2 was enqueued by a generator other than the one that got x1
C2_Witness ==
    /\ Len(enqLog) >= 2
    /\ Len(reqLog) >= 2
    /\ enqLog[1].msg # enqLog[2].msg
    /\ reqLog[1].res = enqLog[1]
    /\ reqLog[2].res = enqLog[2]
    /\ reqLog[1].gen # reqLog[2].gen

\* ---------------------------------------------------------------------
\* C3: exactly-once delivery while the stream is open.  Every payload
\* enqueued since the last endMessageStream is either still in the queue,
\* once, or has been delivered to exactly one requestNext; never both,
\* never neither.
C3_ExactlyOnce ==
    \A k \in 1..Len(enqLog) :
        LET Is(x) == x = enqLog[k]
            Got(r) == r.res = enqLog[k]
        IN  Count(messageQueue, Is) + Count(reqLog, Got) = 1

\* one payload has been delivered and another is buffered
C3_Witness ==
    /\ messageQueue # <<>>
    /\ \E i \in 1..Len(reqLog) : reqLog[i].res \notin {Pending, NoMsg}
    /\ \E i \in 1..Len(enqLog) : enqLog[i].kind = "interrupt"

\* the step in which handlePrompt returns
HandlePromptReturns == pc = "streaming" /\ pc' = "loopTop"

\* ---------------------------------------------------------------------
\* C4: the prompt of a turn is consumed only by the generator created for
\* that turn, and the first payload that generator receives while its turn
\* is streaming is that prompt.
C4_PromptToOwnStream ==
    \A i \in 1..Len(reqLog) :
        LET r == reqLog[i]
        IN  /\ r.res.kind = "prompt" => r.gen = r.res.turn
            /\ ( /\ state.isStreaming
                 /\ r.gen = state.turnCount
                 /\ r.res # Pending
                 /\ \A j \in 1..(i - 1) : reqLog[j].gen # r.gen )
               => (r.res.kind = "prompt" /\ r.res.turn = r.gen)

\* ---------------------------------------------------------------------
\* C5: when handlePrompt ends the stream of a turn, the bridge has received
\* the turn's prompt first and then every interrupt captured during the
\* turn, in the order captured.
C5_InterruptsReachBridge ==
    [][ HandlePromptReturns =>
          LET ints == SelectSeq(enqLog, LAMBDA m : m.kind = "interrupt"
                                                  /\ m.from = state.turnCount)
          IN  /\ enqLog # <<>>
              /\ enqLog[1].kind = "prompt"
              /\ enqLog[1].turn = state.turnCount
              /\ [i \in 1..Len(ints) |-> ints[i].msg.content]
                    = [i \in 1..Len(captured) |-> InterruptPrefix \o captured[i]]
      ]_vars

\* ---------------------------------------------------------------------
\* C6: every interrupt enqueued onto the bridge during a turn has been
\* delivered to the generator of that same turn when the turn's
\* endMessageStream runs (none is still buffered and discarded, none went
\* to another turn's generator).
C6_InterruptsDelivered ==
    [][ HandlePromptReturns =>
          \A k \in 1..Len(enqLog) :
              enqLog[k].kind = "interrupt" =>
                  \E i \in 1..Len(reqLog) :
                      /\ reqLog[i].res = enqLog[k]
                      /\ reqLog[i].gen = enqLog[k].turn
      ]_vars

\* ---------------------------------------------------------------------
\* C7: whether the inbound loop completed or raised, when handlePrompt
\* returns isStreaming is false, capture mode is off, endMessageStream has
\* been called and the bridge's queue and resolver list are empty.
C7_CleanupUnconditional ==
    [][ HandlePromptReturns =>
          /\ ~state'.isStreaming
          /\ ~inputHandler'.isCapturing
          /\ endCalls' = endCalls + 1
          /\ messageQueue' = <<>>
          /\ messageResolvers' = <<>>
      ]_vars

\* handlePrompt has returned after a raise, with interrupts captured
C7_Witness ==
    /\ pc = "loopTop"
    /\ lastOutcome = "raised"
    /\ captured # <<>>
    /\ endCalls = state.turnCount

\* ---------------------------------------------------------------------
\* C8: when the inbound stream raises, the error is shown once, the turn
\* ends with the session still running, and the main loop's next step
\* registers a prompt resolver again (it does not terminate); that step is
\* taken.
C8_RaiseNotFatal ==
    /\ [][ (HandlePromptReturns /\ lastOutcome' = "raised") =>
              (errorsShown' = 1 /\ isRunning' /\ ~state'.isStreaming) ]_vars
    /\ [][ (pc = "loopTop" /\ lastOutcome = "raised" /\ pc' # pc) =>
              /\ pc' = "awaitInput"
              /\ inputHandler'.pendingResolve
              /\ isRunning'
              /\ errorsShown = 1 ]_vars
    /\ (pc = "loopTop" /\ lastOutcome = "raised")
           ~> (pc = "awaitInput" /\ inputHandler.pendingResolve)

\* a turn has ended by a raise and the error has been shown
C8_Witness ==
    /\ pc = "loopTop"
    /\ lastOutcome = "raised"
    /\ errorsShown = 1
    /\ isRunning

\* ---------------------------------------------------------------------
\* C9: endMessageStream ends every generator that is waiting at that moment
\* (its request resolves to null and it returns) and leaves the queue and
\* the resolver list empty; a generator that has returned stays returned.
C9_EndStreamResolvesAll ==
    /\ [][ endCalls' # endCalls =>
              /\ \A g \in Turns : gen[g] = "waiting" => gen'[g] = "done"
              /\ messageQueue' = <<>>
              /\ messageResolvers' = <<>> ]_vars
    /\ [][ \A g \in Turns : gen[g] = "done" => gen'[g] = "done" ]_vars

\* a generator has returned while the session is running (so by a null from
\* endMessageStream), at the end of a turn
C9_Witness ==
    /\ isRunning
    /\ pc = "loopTop"
    /\ lastOutcome # "none"
    /\ gen[state.turnCount] = "done"

\* ---------------------------------------------------------------------
\* C10: once the cleanup of a turn has called endMessageStream, a
\* requestNext of that turn's generator that is waiting eventually resolves
\* to null, so that the generator returns.
C10_EndedStreamTerminates ==
    \A g \in Turns : (EndedTurn(g) /\ gen[g] = "waiting") ~> (gen[g] = "done")

\* ---------------------------------------------------------------------
\* C11: endMessageStream is idempotent.  From every reachable state, one
\* call leaves the queue and the resolver list empty; a second call right
\* after it, and a call made when no resolver waits, resume no generator
\* (no resolver is called again), raise nothing and leave both empty.
C11_EndStreamIdempotent ==
    LET b1 == endMessageStream(Bridge)
        b2 == endMessageStream(b1)
    IN  /\ b1.queue = <<>> /\ b1.resolvers = <<>>
        /\ b2.queue = <<>> /\ b2.resolvers = <<>>
        /\ b2.gen = b1.gen
        /\ b2.endCalls = endCalls + 2
        /\ messageResolvers = <<>> => b1.gen = gen

\* cleanup() has called endMessageStream after the finally block of the
\* only turn had called it
C11_Witness ==
    /\ pc = "exited"
    /\ state.turnCount = 1
    /\ ~state.isStreaming
    /\ endCalls = 2
    /\ gen[1] = "done"

\* the last entry of a non-empty sequence
Last(seq) == seq[Len(seq)]

\* ---------------------------------------------------------------------
\* C12: while isStreaming is true, every non-empty submission (each is
\* recorded in the history by processInput), also one that begins with
\* '/', is appended to the interrupt queue and resolves no prompt resolver
\* with a Prompt or Command event.
C12_StreamingLinesAreInterrupts ==
    [][ (state.isStreaming /\ inputHandler'.history # inputHandler.history) =>
          /\ event' = event
          /\ pc' = pc
          /\ inputHandler'.interruptQueue =
                 Append(inputHandler.interruptQueue, Last(inputHandler'.history))
      ]_vars

\* ---------------------------------------------------------------------
\* C13: wherever control is suspended (the process has not exited),
\* isStreaming is true exactly when handlePrompt is in its inbound loop,
\* capture mode is on exactly when isStreaming is true, and both are false
\* while mainLoop awaits getInput.
C13_StreamingIffTurnActive ==
    pc # "exited" =>
        /\ state.isStreaming <=> pc = "streaming"
        /\ inputHandler.isCapturing <=> state.isStreaming
        /\ pc = "awaitInput" =>
               (~state.isStreaming /\ ~inputHandler.isCapturing)

\* the second turn is streaming: both flags were set, cleared and set again
C13_Witness ==
    /\ pc = "streaming"
    /\ state.turnCount = 2
    /\ state.isStreaming
    /\ inputHandler.isCapturing
    /\ endCalls = 1

\* a step that handles a 'line' event (the Option+Enter keystroke, which
\* is counted with the lines, leaves the skip flag set)
LineStep == linesTyped' # linesTyped /\ ~inputHandler'.skipNextLine

C15_AnswerResolvesPermission ==
    \A line \in LineInputs :
        LET answer == parsePermissionResponse(line)
            r == handleLine(inputHandler, line)
        IN  (inputHandler.pendingPermissionResolve /\ answer # "null") =>
                (r.perm = answer /\ ~r.h.pendingPermissionResolve)

\* ---------------------------------------------------------------------
\* C16: getPermissionInput is never called while a permission resolver is
\* pending and getInput is never called while a prompt resolver is
\* pending, so that no pending resolver is overwritten and lost.
C16_NoResolverOverwritten ==
    [][ /\ permWaiters' > permWaiters =>
               ~inputHandler.pendingPermissionResolve
        /\ (pc' = "awaitInput" /\ pc # "awaitInput") =>
               ~inputHandler.pendingResolve
      ]_vars

\* ---------------------------------------------------------------------
\* C17: multiline composition is never active while a permission resolver
\* is pending.
C17_ModesExclusive ==
    ~(inputHandler.isMultilineMode /\ inputHandler.pendingPermissionResolve)

\* ---------------------------------------------------------------------
\* C18: outside multiline and permission modes (the line is no
\* continuation line either), with a prompt resolver pending and capture
\* off, a line whose text is not empty and does not begin with '/'
\* resolves the prompt resolver, once, with a Prompt event that carries
\* the line's trimmed text; nothing else is resolved or captured.
C18_LineBecomesPrompt ==
    \A line \in LineInputs :
        LET h == inputHandler
            r == handleLine(h, line)
        IN  ( /\ h.pendingResolve /\ ~h.isCapturing
              /\ ~h.isMultilineMode /\ ~h.skipNextLine
              /\ ~h.pendingPermissionResolve
              /\ ~EndsWith(line, "\\")
              /\ Trim(line) # <<>>
              /\ ~StartsWith(Trim(line), "/") )
            => /\ r.ev = [type |-> "prompt", text |-> Trim(line)]
               /\ ~r.h.pendingResolve
               /\ r.perm = "null"
               /\ r.cb = <<>>
               /\ r.h.interruptQueue = h.interruptQueue

\* the line " b " has resolved the second getInput() with the prompt "b"
C18_Witness ==
    /\ pc = "dispatch"
    /\ event = [type |-> "prompt", text |-> <<"b">>]
    /\ state.turnCount = 1
    /\ ~inputHandler.pendingResolve

C20_MultilineNeverCommand ==
    [][ (inputHandler.isMultilineMode /\ ~inputHandler'.isMultilineMode) =>
          event'.type # "command" ]_vars

\* ---------------------------------------------------------------------
\* C21: the multiline buffer is non-empty whenever multiline mode is
\* active, and Ctrl+C, whenever it is pressed, leaves multiline mode
\* inactive and the buffer empty.
C21_MultilineBufferInvariant ==
    /\ inputHandler.isMultilineMode => inputHandler.multilineBuffer # <<>>
    /\ \A now \in Nows :
           LET r == ctrlC(inputHandler, now)
           IN  ~r.h.isMultilineMode /\ r.h.multilineBuffer = <<>>

\* a composition of a continuation line and an Option+Enter is under way
C21_Witness ==
    /\ inputHandler.isMultilineMode
    /\ inputHandler.skipNextLine
    /\ inputHandler.multilineBuffer = << <<"a">>, <<>> >>

\* ---------------------------------------------------------------------
\* C22: when Ctrl+C is pressed in capture mode, outside multiline mode,
\* after the user has typed a non-empty partial line, that text is
\* appended to the interrupt queue and passed to the interrupt callback,
\* and neither the exit warning nor the exit is triggered.
C22_KeyLevelInterrupt ==
    \A now \in Nows, typed \in KeyLines :
        LET h == inputHandler
            r == ctrlC(h, now)
        IN  (h.isCapturing /\ ~h.isMultilineMode /\ typed # <<>>) =>
                /\ r.h.interruptQueue = Append(h.interruptQueue, typed)
                /\ r.cb = <<typed>>
                /\ ~r.warn
                /\ ~r.exit

\* ---------------------------------------------------------------------
\* C23: outside multiline mode and with nothing to capture, the first
\* Ctrl+C only shows the warning; a press less than ctrlCTimeoutMs after
\* the press that showed the warning signals exit; a press that comes
\* later only shows the warning again and starts the window afresh.
C23_DoubleCancelExit ==
    \A now \in Nows :
        LET h == inputHandler
            r == ctrlC(h, now)
            first == h.lastCtrlCTime = 0
            within == ~first /\ now - h.lastCtrlCTime < ctrlCTimeoutMs
        IN  (~h.isMultilineMode /\ ~(h.isCapturing /\ h.captureBuffer # <<>>))
            => IF within
               THEN r.exit /\ ~r.warn
               ELSE /\ r.warn /\ ~r.exit
                    /\ r.h.lastCtrlCTime = now
                    /\ r.h = [h EXCEPT !.lastCtrlCTime = now]
                    /\ \A next \in Nows :
                           ctrlC(r.h, next).exit
                               <=> next - now < ctrlCTimeoutMs

\* the warning was shown, and a later press has ended the process
C23_Witness ==
    /\ pc = "exited"
    /\ inputHandler.lastCtrlCTime = Epoch
    /\ state.turnCount = 1
    /\ state.isStreaming

\* ---------------------------------------------------------------------
\* C24: the interrupt queue is lossless and FIFO.  submitInterrupt
\* appends its text to the queue whether or not a callback is registered;
\* each call of the callback comes with exactly one append of the same
\* text at the end of the queue; the queue changes in no other way than
\* by such an append or by getNextInterrupt removing its oldest entry,
\* which is then the interrupt handed to the bridge; and getNextInterrupt
\* returns the none value exactly on the empty queue.
C24_InterruptQueueFifo ==
    /\ [](LET q == inputHandler.interruptQueue
              n == getNextInterrupt(q)
          IN  /\ IF q = <<>>
                 THEN n.text = NoText /\ n.rest = <<>>
                 ELSE n.text = Head(q) /\ n.text # NoText /\ n.rest = Tail(q)
              /\ \A registered \in BOOLEAN, line \in LineInputs :
                     LET h == [inputHandler EXCEPT
                                   !.interruptCallback = registered]
                         r == submitInterrupt([h |-> h, cb |-> <<>>], Trim(line))
                     IN  /\ r.h.interruptQueue = Append(q, Trim(line))
                         /\ r.cb = IF registered THEN <<Trim(line)>> ELSE <<>>)
    /\ [][LET q == inputHandler.interruptQueue
              q2 == inputHandler'.interruptQueue
              called == captured' # captured /\ captured' # <<>>
          IN  /\ called => /\ Len(captured') = Len(captured) + 1
                           /\ q2 = Append(q, Last(captured'))
              /\ q2 # q =>
                    \/ called
                    \/ /\ q # <<>>
                       /\ q2 = Tail(q)
                       /\ Len(enqLog') = Len(enqLog) + 1
                       /\ Last(enqLog').kind = "interrupt"
                       /\ Last(enqLog').msg
                             = createUserMessage(InterruptPrefix \o Head(q))]_vars

\* two interrupts were captured during the turn, the first has been
\* handed to the bridge and the second is the one left in the queue
C24_Witness ==
    /\ Len(captured) = 2
    /\ captured[1] # captured[2]
    /\ inputHandler.interruptQueue = << captured[2] >>
    /\ \E i \in 1..Len(enqLog) :
           /\ enqLog[i].kind = "interrupt"
           /\ enqLog[i].msg.content = InterruptPrefix \o captured[1]

\* ---------------------------------------------------------------------
\* C25: when the input closes while getInput() is pending, the pending
\* resolver is resolved with the exit event and cleared, and nothing else
\* changes; mainLoop's handling of that event clears isRunning and leaves
\* the loop, changing neither the session state (no turn is started) nor
\* the bridge nor the input handler; and the loop does terminate.
C25_CloseEndsLoop ==
    /\ [][(~closed /\ closed' /\ inputHandler.pendingResolve /\ pc' # "exited")
            => /\ event' = [type |-> "exit"]
               /\ inputHandler' = [inputHandler EXCEPT !.pendingResolve = FALSE]
               /\ pc = "awaitInput" /\ pc' = "dispatch"
               /\ UNCHANGED << isRunning, state, bridgeVars >>]_vars
    /\ [][(pc = "dispatch" /\ event.type = "exit" /\ pc' # pc)
            => /\ pc' = "loopTop"
               /\ ~isRunning'
               /\ event' = NoEvent
               /\ UNCHANGED << state, inputHandler, bridgeVars >>]_vars
    /\ [][(pc = "loopTop" /\ ~isRunning /\ pc' # pc)
            => /\ pc' = "stopped"
               /\ UNCHANGED << isRunning, state, inputHandler, bridgeVars >>]_vars
    /\ [][(closed /\ pc = "stopped")
            => /\ pc' \in {"stopped", "exited"}
               /\ ~inputHandler'.pendingResolve
               /\ event' = NoEvent
               /\ state' = state]_vars
    /\ (event.type = "exit") ~> (pc = "stopped" /\ ~isRunning)

\* the input closed at the first prompt and the loop has ended: no line
\* was typed, no turn was started
C25_Witness ==
    /\ pc = "stopped"
    /\ closed
    /\ linesTyped = 0
    /\ ctrlCPresses = 0
    /\ state.turnCount = 0
    /\ ~isRunning
    /\ ~inputHandler.pendingResolve

\* ---------------------------------------------------------------------
\* C26: mainLoop's handling of a command event changes neither the
\* bridge nor the session state (isStreaming, turnCount) nor the input
\* handler (capture mode); it clears isRunning exactly for exit and quit;
\* and the loop then awaits the next input if isRunning still holds and
\* stops otherwise.
Commands ==
    { <<"h", "e", "l", "p">>, <<"c", "l", "e", "a", "r">>,
      <<"e", "x", "i", "t">>, <<"q", "u", "i", "t">>, <<"x">> }

C26_CommandFrame ==
    /\ [](\A command \in Commands :
             handleCommand(command, isRunning)
                 = (isRunning /\ command \notin { <<"e", "x", "i", "t">>,
                                                  <<"q", "u", "i", "t">> }))
    /\ [][(pc = "dispatch" /\ event.type = "command" /\ pc' # pc)
            => /\ pc' = "loopTop"
               /\ UNCHANGED << state, inputHandler, bridgeVars >>
               /\ isRunning /\ ~inputHandler.isCapturing /\ ~state.isStreaming
               /\ isRunning' = (event.command \notin { <<"e", "x", "i", "t">>,
                                                       <<"q", "u", "i", "t">> })]_vars
    /\ [][(pc = "loopTop" /\ pc' # pc)
            => /\ UNCHANGED << isRunning, state, bridgeVars >>
               /\ inputHandler'.isCapturing = inputHandler.isCapturing
               /\ pc' = IF isRunning THEN "awaitInput" ELSE "stopped"]_vars

\* /help has been handled at the first prompt: the loop awaits the next
\* input and no turn was started
C26_Witness ==
    /\ pc = "awaitInput"
    /\ isRunning
    /\ inputHandler.history = << <<"/", "h", "e", "l", "p">> >>
    /\ inputHandler.pendingResolve
    /\ state.turnCount = 0
    /\ linesTyped = 1

\* ---------------------------------------------------------------------
\* C27: a line typed while a permission request is pending (and not
\* swallowed by the skip flag) resolves it with 'yes' for y and yes, with
\* 'no' for n and no, with 'always' for a, always and always allow, in
\* any letter case and with any surrounding white space; every other line
\* resolves nothing and asks again.
C27_ParsePermissionResponse ==
    LET h == inputHandler
    IN  (h.pendingPermissionResolve /\ ~h.skipNextLine) =>
          \A line \in PermissionInputs :
              LET r == handleLine(h, line)
                  expected == IF line \in YesInputs THEN "yes"
                              ELSE IF line \in NoInputs THEN "no"
                              ELSE IF line \in AlwaysInputs THEN "always"
                              ELSE "null"
              IN  /\ parsePermissionResponse(line) = expected
                  /\ r.perm = expected
                  /\ r.reprompt = (expected = "null")
                  /\ r.h.pendingPermissionResolve = (expected = "null")
                  /\ r.ev = NoEvent /\ r.cb = <<>>

\* the second line typed since the request has answered it with no (the
\* first was not an answer)
C27_Witness ==
    /\ permAnswer = "no"
    /\ linesTyped = 2
    /\ permWaiters = 0
    /\ ~inputHandler.pendingPermissionResolve

\* ---------------------------------------------------------------------
\* C28: the decision handleCanUseTool returns preserves the answer: for
\* 'no' it denies with a message, for 'yes' it allows without updated
\* permissions, and for 'always' it allows and carries updated permission
\* rules, which tells it from the decision for 'yes'.
C28_DecisionPreservesAnswer ==
    [][(permAnswer # "null" /\ permAnswer' = "null") =>
          CASE permAnswer = "no" ->
                 /\ decision'.behavior = "deny"
                 /\ decision'.message # ""
            [] permAnswer = "yes" ->
                 /\ decision'.behavior = "allow"
                 /\ "updatedPermissions" \notin DOMAIN decision'
            [] OTHER ->
                 /\ decision'.behavior = "allow"
                 /\ "updatedPermissions" \in DOMAIN decision'
                 /\ decision'.updatedPermissions # Undefined
                 /\ decision'.updatedPermissions # <<>>]_vars

\* ---------------------------------------------------------------------
\* C29: the history never holds more than maxHistory entries and none of
\* them is empty or untrimmed; a submission (processInput) of text that is
\* empty once trimmed leaves the history as it is, any other appends its
\* trimmed text at the end and, when that makes maxHistory + 1 entries,
\* drops the first; and the history changes in no other way.
C29_HistoryBounded ==
    /\ [](LET hist == inputHandler.history
          IN  /\ Len(hist) <= maxHistory
              /\ \A i \in 1..Len(hist) :
                     hist[i] # <<>> /\ hist[i] = Trim(hist[i])
              /\ \A line \in LineInputs :
                     LET r == processInput([h |-> inputHandler, ev |-> NoEvent,
                                            perm |-> "null", cb |-> <<>>,
                                            reprompt |-> FALSE], line)
                         all == Append(hist, Trim(line))
                     IN  r.h.history =
                            IF Trim(line) = <<>> THEN hist
                            ELSE IF Len(all) > maxHistory
                            THEN SubSeq(all, Len(all) - maxHistory + 1, Len(all))
                            ELSE all)
    /\ [][LET hist == inputHandler.history
              hist2 == inputHandler'.history
          IN  hist2 # hist =>
                 /\ linesTyped' = linesTyped + 1
                 /\ hist2 = IF Len(hist) = maxHistory
                            THEN Append(Tail(hist), Last(hist2))
                            ELSE Append(hist, Last(hist2))]_vars

\* the history is full and has lost its oldest entry: it starts with the
\* second of the past commands and ends with the two lines typed since
C29_Witness ==
    /\ Len(inputHandler.history) = maxHistory
    /\ inputHandler.history[1] = PastCommands[2]
    /\ inputHandler.history[maxHistory - 2] = PastCommands[maxHistory - 1]
    /\ inputHandler.history[maxHistory - 1] = <<"a">>
    /\ inputHandler.history[maxHistory] = <<"b">>

\* ---------------------------------------------------------------------
\* C30: Ctrl+C pressed during a multiline composition empties the
\* multiline buffer and leaves multiline mode; it keeps the prompt and
\* permission resolvers, the interrupt queue, the history, capture mode
\* and lastCtrlCTime as they are, calls no callback, shows no exit
\* warning and does not signal exit.
C30_CancelScoped ==
    \A now \in Nows :
        LET h == inputHandler
            r == ctrlC(h, now)
        IN  h.isMultilineMode =>
               /\ r.h.multilineBuffer = <<>>
               /\ ~r.h.isMultilineMode
               /\ r.h.pendingResolve = h.pendingResolve
               /\ r.h.pendingPermissionResolve = h.pendingPermissionResolve
               /\ r.h.interruptQueue = h.interruptQueue
               /\ r.h.history = h.history
               /\ r.h.isCapturing = h.isCapturing
               /\ r.h.captureBuffer = h.captureBuffer
               /\ r.h.lastCtrlCTime = h.lastCtrlCTime
               /\ r.h.interruptCallback = h.interruptCallback
               /\ r.cb = <<>>
               /\ ~r.warn
               /\ ~r.exit

\* a composition is under way while the exit warning is fresh, a prompt
\* is awaited and the history is not empty
C30_Witness ==
    /\ inputHandler.isMultilineMode
    /\ inputHandler.lastCtrlCTime = Epoch
    /\ inputHandler.pendingResolve
    /\ inputHandler.history # <<>>

\* ---------------------------------------------------------------------
\* C31: Option+Enter pushes the text typed so far onto the multiline
\* buffer, activates multiline mode and sets the skip flag; the line event
\* that finds the flag set only clears it (no event, no answer, no
\* interrupt, nothing else changed), so the line after that one is not
\* swallowed: in a composition it is the line that flushes the buffer.
C31_OneShotSkip ==
    /\ [](\A currentLine \in KeyLines :
             LET h == inputHandler
                 k == optionEnter(h, currentLine)
             IN  /\ k = [h EXCEPT !.multilineBuffer = Append(@, currentLine),
                                  !.isMultilineMode = TRUE,
                                  !.skipNextLine = TRUE]
                 /\ \A line \in LineInputs :
                        handleLine(k, line)
                          = [h |-> [k EXCEPT !.skipNextLine = FALSE],
                             ev |-> NoEvent, perm |-> "null", cb |-> <<>>,
                             reprompt |-> FALSE])
    /\ [][(inputHandler.skipNextLine /\ LineStep)
            => /\ inputHandler' = [inputHandler EXCEPT !.skipNextLine = FALSE]
               /\ UNCHANGED << isRunning, state, pc, event, closed, permVars,
                               bridgeVars, captured, queueTurns >>]_vars
    /\ [][(/\ ~inputHandler.skipNextLine
           /\ LineStep
           /\ inputHandler.isMultilineMode
           /\ ~inputHandler.pendingPermissionResolve
           /\ Len(inputHandler'.multilineBuffer)
                 <= Len(inputHandler.multilineBuffer))
            => /\ ~inputHandler'.isMultilineMode
               /\ inputHandler'.multilineBuffer = <<>>]_vars

\* Option+Enter after "a", the swallowed line, then the line " b ": the
\* composition was flushed as the prompt "a\n b"
C31_Witness ==
    /\ linesTyped = 3
    /\ event = [type |-> "prompt", text |-> <<"a", "\n", " ", "b">>]
    /\ ~inputHandler.skipNextLine
    /\ ~inputHandler.isMultilineMode
    /\ inputHandler.multilineBuffer = <<>>

\* ---------------------------------------------------------------------
\* C32: a submission that is empty once trimmed resolves nothing and
\* records nothing: processInput returns no event, no answer and no
\* interrupt and leaves the input handler (pending prompt resolver,
\* history, interrupt queue) as it is, in capture mode and outside it.
EmptyTexts == { <<>>, <<" ">>, <<"\t", " ">>, <<"\n">> }

C32_EmptyIsNoOp ==
    \A text \in EmptyTexts :
        LET r0 == [h |-> inputHandler, ev |-> NoEvent, perm |-> "null",
                   cb |-> <<>>, reprompt |-> FALSE]
        IN  processInput(r0, text) = r0

\* an empty line was typed at the first prompt: the prompt is still
\* awaited and nothing was recorded
C32_Witness ==
    /\ linesTyped = 1
    /\ pc = "awaitInput"
    /\ inputHandler.pendingResolve
    /\ ~inputHandler.isMultilineMode
    /\ inputHandler.history = <<>>
    /\ inputHandler.interruptQueue = <<>>

C34_CaptureIdempotent ==
    LET h == inputHandler
        on == enableCapture(h)
        off == disableCapture(h)
    IN  /\ enableCapture(on) = on
        /\ disableCapture(off) = off
        /\ on = [h EXCEPT !.isCapturing = TRUE, !.captureBuffer = <<>>]
        /\ off = [h EXCEPT !.isCapturing = FALSE, !.captureBuffer = <<>>]
        /\ off.captureBuffer = <<>>

\* capture mode is on in a second turn, with an interrupt in the queue
C34_Witness ==
    /\ inputHandler.isCapturing
    /\ state.turnCount = 2
    /\ inputHandler.interruptQueue # <<>>

\* ---------------------------------------------------------------------
\* C35: every interrupt payload enqueued onto the bridge during a turn
\* carries text captured during that turn, and the interrupt queue is
\* empty when handlePrompt starts a turn.
C35_SameTurnInterrupts ==
    /\ [](\A k \in 1..Len(enqLog) :
             enqLog[k].kind = "interrupt" => enqLog[k].from = enqLog[k].turn)
    /\ [][(pc = "dispatch" /\ event.type = "prompt" /\ pc' = "streaming")
            => inputHandler.interruptQueue = <<>>]_vars

\* ---------------------------------------------------------------------
\* C36: a captured text is enqueued onto the bridge at most once.  The
\* step that captures it (the interrupt callback is called) appends it
\* once to the interrupt queue, notes it in pendingInterrupt if a turn is
\* streaming, and enqueues nothing; an interrupt payload is enqueued only
\* by the step that removes its text from the head of the queue, one
\* payload for one entry, and that step does not read pendingInterrupt.
C36_InjectedAtMostOnce ==
    /\ [][(captured' # captured /\ captured' # <<>>)
            => /\ UNCHANGED bridgeVars
               /\ inputHandler'.interruptQueue
                     = Append(inputHandler.interruptQueue, Last(captured'))
               /\ state' = [state EXCEPT !.pendingInterrupt =
                                IF state.isStreaming THEN Last(captured')
                                ELSE @]]_vars
    /\ [][(enqLog' # enqLog /\ enqLog' # <<>>
             /\ Last(enqLog').kind = "interrupt")
            => /\ inputHandler.interruptQueue # <<>>
               /\ inputHandler'.interruptQueue
                     = Tail(inputHandler.interruptQueue)
               /\ enqLog' = Append(enqLog, Last(enqLog'))
               /\ Last(enqLog').msg.content
                     = InterruptPrefix \o Head(inputHandler.interruptQueue)
               /\ state' = state]_vars

\* the interrupt " b " was captured (pendingInterrupt still names it) and
\* has been polled and enqueued: it is on the bridge once and no longer in
\* the queue
C36_Witness ==
    /\ state.pendingInterrupt = <<"b">>
    /\ inputHandler.interruptQueue = <<>>
    /\ captured = << <<"b">> >>
    /\ Len(enqLog) = 2
    /\ enqLog[2].kind = "interrupt"
    /\ enqLog[2].msg.content = InterruptPrefix \o <<"b">>

\* ---------------------------------------------------------------------
\* C37: no permission resolver is pending while mainLoop awaits the next
\* prompt.
C37_NoPermissionWhileIdle ==
    (pc = "awaitInput" /\ ~state.isStreaming)
        => ~inputHandler.pendingPermissionResolve

\* ---------------------------------------------------------------------
\* C38: once the input is closed, mainLoop at its loop test or awaiting
\* getInput() eventually leaves the loop (or the process has exited).
C38_ClosedInputTerminates ==
    (closed /\ pc \in {"loopTop", "awaitInput"})
        ~> (pc \in {"stopped", "exited"})

\* ---------------------------------------------------------------------
\* C39: no prompt resolver is pending while a turn is streaming; a prompt
\* resolver is pending only while mainLoop awaits getInput(); and when the
\* session is running, not streaming and mainLoop awaits getInput(), one
\* is pending.
C39_PromptResolverWhenIdle ==
    /\ state.isStreaming => ~inputHandler.pendingResolve
    /\ inputHandler.pendingResolve => pc = "awaitInput"
    /\ (isRunning /\ ~state.isStreaming /\ pc = "awaitInput")
          => inputHandler.pendingResolve

\* a turn has ended and mainLoop awaits the next prompt
C39_Witness ==
    /\ pc = "awaitInput"
    /\ isRunning
    /\ state.turnCount = 1
    /\ ~state.isStreaming
    /\ inputHandler.pendingResolve

\* ---------------------------------------------------------------------
\* C40: the skip flag is set only while multiline mode is active.
C40_SkipOnlyInMultiline ==
    inputHandler.skipNextLine => inputHandler.isMultilineMode

\* during a turn the user has pressed Option+Enter: the flag is set and
\* multiline mode is active
C40_Witness ==
    /\ inputHandler.skipNextLine
    /\ inputHandler.isMultilineMode
    /\ inputHandler.isCapturing
    /\ state.isStreaming

====
